---- MODULE Spec2Model ----
(***************************************************************************)
(* Model of the two resource managers of the google provider:             *)
(*   google/resource_compute_target_ssl_proxy.go   (kind = "ssl")          *)
(*   google/resource_compute_target_https_proxy.go (kind = "https")        *)
(* One resource instance is modelled.  Each handler (Create, Read, Update, *)
(* Delete) is cut at its blocking points: every remote call (.Do()) and    *)
(* every operation wait is a step of its own, so that the order of the     *)
(* remote calls is observable in the log `calls`.                          *)
(***************************************************************************)
EXTENDS Integers, Sequences, FiniteSets, TLC

VARIABLES
    kind,         \* which of the two resources this instance is
    provProject,  \* config.Project, the provider-level default project
    cfg,          \* the declared configuration (what d.Get returns in Create/Update)
    d,            \* schema.ResourceData: id and the fields written by d.Set
    partial,      \* d.Partial(...) mode
    partialKeys,  \* keys marked by d.SetPartial
    remote,       \* the remote proxy object
    op,           \* handler being run (or last run)
    pc,           \* position inside the handler
    result,       \* what the handler returned: "none" (running), "ok", "err", "panic"
    errKind,      \* which failure made the handler return / was met last
    calls,        \* log of the remote calls of this handler invocation
    project,      \* local variable `project`
    gi,           \* Update: index of the field group being processed
    id0,          \* d.Id() when the handler was entered
    req,          \* payload of the remote call whose operation is being waited on
    deleted,      \* history: the last change of the id was a successful Delete
    getOutcome    \* outcome of the Get of Read in this invocation

vars == <<kind, provProject, cfg, d, partial, partialKeys, remote, op, pc,
          result, errKind, calls, project, gi, id0, req, deleted, getOutcome>>

----------------------------------------------------------------------------
(* Bounds of the model *)

\* longest declared ssl_certificates list of the https proxy
MaxCerts == 2

\* schema MaxItems of ssl_certificates of the ssl proxy
SslMaxItems == 1

\* numeric identifiers the remote side may assign
RemoteIds == {40}

----------------------------------------------------------------------------
(* Reference strings.  A reference is kept as its parsed shape so that the  *)
(* conversion short name -> relative path is a real computation.           *)

Short(n)  == [form |-> "short", project |-> "", name |-> n]
Rel(p, n) == [form |-> "rel", project |-> p, name |-> n]
Url(p, n) == [form |-> "url", project |-> p, name |-> n]
BadRef    == [form |-> "bad", project |-> "", name |-> "?"]
EmptyRef  == [form |-> "empty", project |-> "", name |-> ""]

\* certificate references a declaration may hold
CertRefs == {Short("c1"), Url("p2", "c2"), BadRef}

\* ssl_policy values a declaration may hold ("" = not declared)
PolicyRefs == {EmptyRef, Short("pol1"), BadRef}

Backends == {"b1", "b2"}
ProxyHeaders == {"NONE", "PROXY_V1"}
Descriptions == {"", "desc"}
ResourceName == "proxy1"

\* the lists of 1..n elements of S that name no element twice
SeqsUpTo(S, n) ==
    {q \in UNION {[1..k -> S] : k \in 1..n} :
        \A i, j \in DOMAIN q : q[i] = q[j] => i = j}

MaxItemsOf(k) == IF k = "ssl" THEN SslMaxItems ELSE MaxCerts

----------------------------------------------------------------------------
(* Helpers of the provider that the two files consume *)

\* getProject(d, config): the resource's project, else the provider's; error if none
getProject ==
    IF d.project # "" THEN [err |-> FALSE, project |-> d.project]
    ELSE IF provProject # "" THEN [err |-> FALSE, project |-> provProject]
    ELSE [err |-> TRUE, project |-> ""]

\* ParseSslCertificateFieldValue(s, d, config): a global field value or an error
ParseSslCertificateFieldValue(ref, proj) ==
    CASE ref.form = "short" -> [err |-> FALSE, project |-> proj, name |-> ref.name]
      [] ref.form \in {"rel", "url"} ->
             [err |-> FALSE, project |-> ref.project, name |-> ref.name]
      [] OTHER -> [err |-> TRUE, project |-> "", name |-> ""]

\* (*GlobalFieldValue).RelativeLink()
RelativeLink(fv) == Rel(fv.project, fv.name)

\* ParseSslPolicyFieldValue(s, d, config): the outcomes (pol, err) it may give.
\* On an error the returned pointer is nil, or a value that carries nothing;
\* what the helper does with the empty string is left open.
ParseSslPolicyFieldValue(ref, proj) ==
    LET good == [err |-> FALSE, nil |-> FALSE, project |-> proj, name |-> ref.name]
        okRef == [err |-> FALSE, nil |-> FALSE, project |-> ref.project, name |-> ref.name]
        bad == {[err |-> TRUE, nil |-> TRUE, project |-> "", name |-> ""],
                [err |-> TRUE, nil |-> FALSE, project |-> "", name |-> ""]}
    IN CASE ref.form = "short" -> {good}
         [] ref.form \in {"rel", "url"} -> {okRef}
         [] ref.form = "empty" -> bad \cup {[err |-> FALSE, nil |-> FALSE, project |-> "", name |-> ""]}
         [] OTHER -> bad

\* the link SetSslPolicy carries: empty stays empty
PolicyLink(pol) == IF pol.name = "" THEN EmptyRef ELSE RelativeLink(pol)

\* compareSelfLinkOrResourceName / compareSelfLinkRelativePaths (DiffSuppressFunc):
\* two references are the same when they name the same object
SameRef(a, b) ==
    \/ a = b
    \/ /\ a.form \in {"short", "rel", "url"}
       /\ b.form \in {"short", "rel", "url"}
       /\ a.name = b.name
       /\ (a.form = "short" \/ b.form = "short" \/ a.project = b.project)

SameRefs(s, t) == Len(s) = Len(t) /\ \A i \in 1..Len(s) : SameRef(s[i], t[i])

Digit(n) == CASE n = 0 -> "0" [] n = 1 -> "1" [] n = 2 -> "2" [] n = 3 -> "3"
              [] n = 4 -> "4" [] n = 5 -> "5" [] n = 6 -> "6" [] n = 7 -> "7"
              [] n = 8 -> "8" [] n = 9 -> "9"

\* strconv.FormatUint(n, 10), as the sequence of its characters
RECURSIVE FormatUint(_)
FormatUint(n) == IF n < 10 THEN <<Digit(n)>>
                 ELSE FormatUint(n \div 10) \o <<Digit(n % 10)>>

----------------------------------------------------------------------------
(* State *)

NoRemote == [exists |-> FALSE, name |-> "", description |-> "", service |-> "",
             proxyHeader |-> "", sslCertificates |-> <<>>, sslPolicy |-> EmptyRef,
             selfLink |-> <<>>, id |-> 0]

EmptyData == [id |-> "", name |-> "", description |-> "", backend |-> "",
              proxy_header |-> "", ssl_certificates |-> <<>>, ssl_policy |-> EmptyRef,
              project |-> "", self_link |-> <<>>, proxy_id |-> <<>>]

NoReq == [rpc |-> "none"]

Configs(k) ==
    [name : {ResourceName}, description : Descriptions, backend : Backends,
     proxy_header : IF k = "ssl" THEN ProxyHeaders ELSE {""},
     ssl_certificates : SeqsUpTo(CertRefs, MaxItemsOf(k)),
     ssl_policy : PolicyRefs]

Init ==
    /\ kind \in {"ssl", "https"}
    /\ provProject \in {"", "p1"}
    /\ cfg \in Configs(kind)
    /\ d = EmptyData
    /\ partial = FALSE
    /\ partialKeys = {}
    /\ remote = NoRemote
    /\ op = "none"
    /\ pc = "idle"
    /\ result = "none"
    /\ errKind = "none"
    /\ calls = <<>>
    /\ project = ""
    /\ gi = 0
    /\ id0 = ""
    /\ req = NoReq
    /\ deleted = FALSE
    /\ getOutcome = "none"

----------------------------------------------------------------------------
(* Pieces shared by the handlers *)

\* expandSslCertificates: one canonical relative path per declared element, in
\* list order; nil and an error at the first element that does not parse
RECURSIVE expandLoop(_, _, _, _)
expandLoop(configured, i, certs, proj) ==
    IF i > Len(configured) THEN [err |-> FALSE, certs |-> certs]
    ELSE LET fv == ParseSslCertificateFieldValue(configured[i], proj)
         IN IF fv.err THEN [err |-> TRUE, certs |-> <<>>]
            ELSE expandLoop(configured, i + 1, Append(certs, RelativeLink(fv)), proj)

\* variant: each path is put in front of the list instead of behind it
RECURSIVE expandLoop_Prepend(_, _, _, _)
expandLoop_Prepend(configured, i, certs, proj) ==
    IF i > Len(configured) THEN [err |-> FALSE, certs |-> certs]
    ELSE LET fv == ParseSslCertificateFieldValue(configured[i], proj)
         IN IF fv.err THEN [err |-> TRUE, certs |-> <<>>]
            ELSE expandLoop_Prepend(configured, i + 1, <<RelativeLink(fv)>> \o certs, proj)

expandSslCertificates_Prepend(proj) ==
    expandLoop_Prepend(cfg.ssl_certificates, 1, <<>>, proj)

expandSslCertificates(proj) == expandLoop(cfg.ssl_certificates, 1, <<>>, proj)

\* the remote object addressed by d.Id(), if there is one
Addressed == remote.exists /\ remote.name = d.id

\* outcomes of a remote call: "ok" is possible only when the remote side can serve it
InsertOutcomes == IF remote.exists THEN {"fail"} ELSE {"ok", "fail"}
MutateOutcomes == IF Addressed THEN {"ok", "fail"} ELSE {"fail"}
GetOutcomes == IF Addressed THEN {"ok", "fail"} ELSE {"notFound", "fail"}

Call(rpc, st) == [rpc |-> rpc, st |-> st]

\* the status of the last logged call becomes st
Settle(log, st) == [log EXCEPT ![Len(log)] = [@ EXCEPT !.st = st]]

\* the handler returns
Return(res, ek) ==
    /\ result' = res
    /\ errKind' = ek
    /\ pc' = "returned"
    /\ req' = NoReq
    /\ project' = ""
    /\ gi' = 0

\* a handler is entered on a fresh ResourceData
Enter(name) ==
    /\ pc = "idle"
    /\ op' = name
    /\ id0' = d.id
    /\ getOutcome' = "none"
    /\ partialKeys' = {}

\* what the remote side does with a request once its operation has run
Apply(r) ==
    CASE r.rpc = "Insert" -> r.proxy
      [] r.rpc = "SetProxyHeader" -> [remote EXCEPT !.proxyHeader = r.value]
      [] r.rpc \in {"SetBackendService", "SetUrlMap"} -> [remote EXCEPT !.service = r.value]
      [] r.rpc = "SetSslCertificates" -> [remote EXCEPT !.sslCertificates = r.value]
      [] r.rpc = "SetSslPolicy" -> [remote EXCEPT !.sslPolicy = r.value]
      [] r.rpc = "Delete" -> NoRemote

----------------------------------------------------------------------------
(* Create *)

\* the object Create sends: compute.TargetSslProxy{...}
resourceComputeTargetSslProxyPayload(certs) ==
    [name |-> cfg.name, service |-> cfg.backend, proxyHeader |-> cfg.proxy_header,
     description |-> cfg.description, sslCertificates |-> certs]

\* the object Create sends: compute.TargetHttpsProxy{...}, description if set
resourceComputeTargetHttpsProxyPayload(certs) ==
    [name |-> cfg.name, service |-> cfg.backend, proxyHeader |-> "",
     description |-> IF cfg.description # "" THEN cfg.description ELSE "",
     sslCertificates |-> certs]

CreatePayload(certs) ==
    IF kind = "ssl" THEN resourceComputeTargetSslProxyPayload(certs)
    ELSE resourceComputeTargetHttpsProxyPayload(certs)

\* the remote object an Insert of payload p brings into being
Inserted(p, proj, n) ==
    [exists |-> TRUE, name |-> p.name, description |-> p.description,
     service |-> p.service, proxyHeader |-> p.proxyHeader,
     sslCertificates |-> p.sslCertificates, sslPolicy |-> EmptyRef,
     selfLink |-> <<proj, p.name>>, id |-> n]

\* Create up to and including the Insert call
CreateInsert ==
    /\ Enter("Create")
    /\ d.id = ""
    /\ partial' = FALSE
    /\ UNCHANGED <<deleted, kind, provProject, cfg, d, remote>>
    /\ LET p == getProject IN
       IF p.err
       THEN /\ Return("err", "project")
            /\ calls' = <<>>
       ELSE LET e == expandSslCertificates(p.project) IN
            IF e.err
            THEN /\ Return("err", "certParse")
                 /\ calls' = <<>>
            ELSE \E o \in InsertOutcomes :
                 IF o = "ok"
                 THEN /\ \E n \in RemoteIds :
                           req' = [rpc |-> "Insert",
                                   proxy |-> Inserted(CreatePayload(e.certs), p.project, n)]
                      /\ calls' = <<Call("Insert", "issued")>>
                      /\ pc' = "create_wait"
                      /\ project' = p.project
                      /\ result' = "none"
                      /\ errKind' = "none"
                      /\ gi' = 0
                 ELSE /\ Return("err", "api")
                      /\ calls' = <<Call("Insert", "callErr")>>

\* variant: d.SetId comes before the wait's outcome is looked at
CreateWaitFailed_SetsId ==
    /\ Return("err", "wait")
    /\ d' = [d EXCEPT !.id = req.proxy.name]
    /\ UNCHANGED deleted

\* the insert's operation wait failed: return err, the id is not set
CreateWaitFailed ==
    /\ Return("err", "wait")
    /\ UNCHANGED <<d, deleted>>

\* computeOperationWait on the insert, then d.SetId(proxy.Name)
CreateInsertWait ==
    /\ pc = "create_wait"
    /\ UNCHANGED <<kind, provProject, cfg, partial, partialKeys, op, id0, getOutcome>>
    /\ \/ /\ remote' = Apply(req)
          /\ calls' = Settle(calls, "done")
          /\ d' = [d EXCEPT !.id = req.proxy.name]
          /\ deleted' = FALSE
          /\ pc' = "create_policy"
          /\ req' = NoReq
          /\ UNCHANGED <<result, errKind, project, gi>>
       \/ /\ remote' \in {remote, Apply(req)}
          /\ calls' = Settle(calls, "waitErr")
          /\ CreateWaitFailed

\* variant: the policy is attached whether declared or not
GetOkSslPolicy_Always == TRUE

\* _, ok := d.GetOk("ssl_policy"): set and not the zero value
GetOkSslPolicy == cfg.ssl_policy # EmptyRef

\* if v, ok := d.GetOk("ssl_policy"); ok: parse (its error is dropped), SetSslPolicy
CreateSetSslPolicy ==
    /\ pc = "create_policy"
    /\ GetOkSslPolicy
    /\ UNCHANGED <<deleted, kind, provProject, cfg, d, partial, partialKeys, remote, op, id0,
                   getOutcome>>
    /\ \E pol \in ParseSslPolicyFieldValue(cfg.ssl_policy, project) :
       IF pol.nil
       THEN \* pol.RelativeLink() on a nil pointer
            /\ Return("panic", "policyParse")
            /\ UNCHANGED calls
       ELSE \E o \in MutateOutcomes :
            IF o = "ok"
            THEN /\ req' = [rpc |-> "SetSslPolicy", value |-> PolicyLink(pol)]
                 /\ calls' = Append(calls, Call("SetSslPolicy", "issued"))
                 /\ pc' = "create_policy_wait"
                 /\ errKind' = IF pol.err THEN "policyParse" ELSE errKind
                 /\ UNCHANGED <<result, project, gi>>
            ELSE /\ Return("err", "api")
                 /\ calls' = Append(calls, Call("SetSslPolicy", "callErr"))

\* no ssl_policy declared: straight to the closing Read
CreateNoSslPolicy ==
    /\ pc = "create_policy"
    /\ ~GetOkSslPolicy
    /\ pc' = "read"
    /\ UNCHANGED <<deleted, kind, provProject, cfg, d, partial, partialKeys, remote, op, result,
                   errKind, calls, project, gi, id0, req, getOutcome>>

\* computeSharedOperationWait on the policy attach
CreateSslPolicyWait ==
    /\ pc = "create_policy_wait"
    /\ UNCHANGED <<deleted, kind, provProject, cfg, d, partial, partialKeys, op, id0, getOutcome>>
    /\ \/ /\ remote' = Apply(req)
          /\ calls' = Settle(calls, "done")
          /\ pc' = "read"
          /\ req' = NoReq
          /\ UNCHANGED <<result, errKind, project, gi>>
       \/ /\ remote' \in {remote, Apply(req)}
          /\ calls' = Settle(calls, "waitErr")
          /\ Return("err", "wait")

----------------------------------------------------------------------------
(* Read *)

\* variant: the d.Set of ssl_policy is missing
resourceComputeTargetSslProxyReadSet_NoPolicy(proxy, proj) ==
    [d EXCEPT !.name = proxy.name,
              !.description = proxy.description,
              !.proxy_header = proxy.proxyHeader,
              !.backend = proxy.service,
              !.ssl_certificates = proxy.sslCertificates,
              !.project = proj,
              !.self_link = proxy.selfLink,
              !.proxy_id = FormatUint(proxy.id)]

\* d.Set(...) of every field of the fetched TargetSslProxy
resourceComputeTargetSslProxyReadSet(proxy, proj) ==
    [d EXCEPT !.name = proxy.name,
              !.description = proxy.description,
              !.proxy_header = proxy.proxyHeader,
              !.backend = proxy.service,
              !.ssl_certificates = proxy.sslCertificates,
              !.ssl_policy = proxy.sslPolicy,
              !.project = proj,
              !.self_link = proxy.selfLink,
              !.proxy_id = FormatUint(proxy.id)]

\* d.Set(...) of every field of the fetched TargetHttpsProxy
resourceComputeTargetHttpsProxyReadSet(proxy, proj) ==
    [d EXCEPT !.ssl_certificates = proxy.sslCertificates,
              !.proxy_id = FormatUint(proxy.id),
              !.self_link = proxy.selfLink,
              !.description = proxy.description,
              !.backend = proxy.service,
              !.name = proxy.name,
              !.project = proj,
              !.ssl_policy = proxy.sslPolicy]

\* handleNotFoundError(err, d, ...): a not-found clears the id and is no error
handleNotFoundError(o) ==
    IF o = "notFound" THEN [d |-> [d EXCEPT !.id = ""], res |-> "ok", ek |-> "notFound"]
    ELSE [d |-> d, res |-> "err", ek |-> "get"]

\* variant: every Get failure, not-found included, is returned as an error
ReadGetFailed_AllErrors(o) == [d |-> d, res |-> "err", ek |-> "get"]

\* if err != nil { return handleNotFoundError(err, d, ...) }
ReadGetFailed(o) == handleNotFoundError(o)

\* Read, entered by the framework
ReadEnter ==
    /\ Enter("Read")
    /\ pc' = "read"
    /\ partial' = FALSE
    /\ calls' = <<>>
    /\ result' = "none"
    /\ errKind' = "none"
    /\ UNCHANGED <<deleted, kind, provProject, cfg, d, remote, project, gi, req>>

\* the body of Read; also the tail of Create and Update
Read ==
    /\ pc = "read"
    /\ UNCHANGED <<deleted, kind, provProject, cfg, partial, partialKeys, remote, op, id0>>
    /\ LET p == getProject IN
       IF p.err
       THEN /\ Return("err", "project")
            /\ UNCHANGED <<d, calls, getOutcome>>
       ELSE \E o \in GetOutcomes :
            /\ getOutcome' = o
            /\ calls' = Append(calls, Call("Get", o))
            /\ IF o = "ok"
               THEN /\ d' = IF kind = "ssl"
                            THEN resourceComputeTargetSslProxyReadSet(remote, p.project)
                            ELSE resourceComputeTargetHttpsProxyReadSet(remote, p.project)
                    /\ Return("ok", errKind)
               ELSE LET h == ReadGetFailed(o) IN
                    /\ d' = h.d
                    /\ Return(h.res, h.ek)

----------------------------------------------------------------------------
(* Update *)

\* variant: the first two if-blocks of the ssl proxy's Update change places
resourceComputeTargetSslProxyUpdateGroups_Swapped ==
    <<"backend_service", "proxy_header", "ssl_certificates", "ssl_policy">>

\* the field groups Update walks through, in the order of its if-blocks
resourceComputeTargetSslProxyUpdateGroups ==
    <<"proxy_header", "backend_service", "ssl_certificates", "ssl_policy">>

resourceComputeTargetHttpsProxyUpdateGroups ==
    <<"url_map", "ssl_certificates", "ssl_policy">>

UpdateGroups == IF kind = "ssl" THEN resourceComputeTargetSslProxyUpdateGroups
                ELSE resourceComputeTargetHttpsProxyUpdateGroups

\* the keys d.SetPartial is called with once a group's operation has finished
resourceComputeTargetSslProxySetPartial(g) ==
    CASE g = "proxy_header" -> {"proxy_header"}
      [] g = "backend_service" -> {"backend_service"}
      [] g = "ssl_certificates" -> {"ssl_certificates"}
      [] OTHER -> {}

resourceComputeTargetHttpsProxySetPartial(g) ==
    CASE g = "url_map" -> {"url_map"}
      [] g = "ssl_certificates" -> {"ssl_certificate"}
      [] OTHER -> {}

SetPartial(g) == IF kind = "ssl" THEN resourceComputeTargetSslProxySetPartial(g)
                 ELSE resourceComputeTargetHttpsProxySetPartial(g)

\* the remote call of a field group
RpcOf(g) ==
    CASE g = "proxy_header" -> "SetProxyHeader"
      [] g = "backend_service" -> "SetBackendService"
      [] g = "url_map" -> "SetUrlMap"
      [] g = "ssl_certificates" -> "SetSslCertificates"
      [] g = "ssl_policy" -> "SetSslPolicy"

\* d.HasChange(key): the declared value differs from the last-known one
HasChange(g) ==
    CASE g = "proxy_header" -> d.proxy_header # cfg.proxy_header
      [] g \in {"backend_service", "url_map"} -> d.backend # cfg.backend
      [] g = "ssl_certificates" -> ~SameRefs(d.ssl_certificates, cfg.ssl_certificates)
      [] g = "ssl_policy" -> ~SameRef(d.ssl_policy, cfg.ssl_policy)

\* the request a changed group sends, or the error met while building it
GroupRequests(g) ==
    CASE g \in {"proxy_header"} ->
             {[err |-> FALSE, ek |-> "none", value |-> cfg.proxy_header]}
      [] g \in {"backend_service", "url_map"} ->
             {[err |-> FALSE, ek |-> "none", value |-> cfg.backend]}
      [] g = "ssl_certificates" ->
             LET e == expandSslCertificates(project)
             IN {[err |-> e.err, ek |-> IF e.err THEN "certParse" ELSE "none",
                  value |-> e.certs]}
      [] g = "ssl_policy" ->
             {[err |-> pol.err, ek |-> IF pol.err THEN "policyParse" ELSE "none",
               value |-> PolicyLink(pol)] :
                  pol \in ParseSslPolicyFieldValue(cfg.ssl_policy, project)}

\* Update up to d.Partial(true)
UpdateEnter ==
    /\ Enter("Update")
    /\ d.id # ""
    /\ calls' = <<>>
    /\ UNCHANGED <<deleted, kind, provProject, cfg, d, remote, req>>
    /\ LET p == getProject IN
       IF p.err
       THEN /\ Return("err", "project")
            /\ partial' = FALSE
       ELSE /\ partial' = TRUE
            /\ project' = p.project
            /\ gi' = 1
            /\ pc' = "update_group"
            /\ result' = "none"
            /\ errKind' = "none"

\* a field group whose value did not change is passed over
UpdateSkipGroup ==
    /\ pc = "update_group"
    /\ gi <= Len(UpdateGroups)
    /\ ~HasChange(UpdateGroups[gi])
    /\ gi' = gi + 1
    /\ UNCHANGED <<deleted, kind, provProject, cfg, d, partial, partialKeys, remote, op, pc,
                   result, errKind, calls, project, id0, req, getOutcome>>

\* variant: the error of the group's call is dropped and Update goes on
UpdateCallFailed_Ignored(g) ==
    /\ calls' = Append(calls, Call(RpcOf(g), "callErr"))
    /\ gi' = gi + 1
    /\ pc' = "update_group"
    /\ UNCHANGED <<result, errKind, project, req>>

\* the group's call failed: if err != nil { return fmt.Errorf(...) }
UpdateCallFailed(g) ==
    /\ Return("err", "api")
    /\ calls' = Append(calls, Call(RpcOf(g), "callErr"))

\* a field group whose value changed: build the request and issue its call
UpdateGroupCall ==
    /\ pc = "update_group"
    /\ gi <= Len(UpdateGroups)
    /\ HasChange(UpdateGroups[gi])
    /\ UNCHANGED <<deleted, kind, provProject, cfg, d, partial, partialKeys, remote, op, id0,
                   getOutcome>>
    /\ LET g == UpdateGroups[gi] IN
       \E r \in GroupRequests(g) :
          IF r.err
          THEN /\ Return("err", r.ek)
               /\ UNCHANGED calls
          ELSE \E o \in MutateOutcomes :
               IF o = "ok"
               THEN /\ req' = [rpc |-> RpcOf(g), value |-> r.value]
                    /\ calls' = Append(calls, Call(RpcOf(g), "issued"))
                    /\ pc' = "update_wait"
                    /\ UNCHANGED <<result, errKind, project, gi>>
               ELSE UpdateCallFailed(g)

\* the operation wait of a field group, then its d.SetPartial
UpdateGroupWait ==
    /\ pc = "update_wait"
    /\ UNCHANGED <<deleted, kind, provProject, cfg, d, partial, op, id0, getOutcome>>
    /\ \/ /\ remote' = Apply(req)
          /\ calls' = Settle(calls, "done")
          /\ partialKeys' = partialKeys \cup SetPartial(UpdateGroups[gi])
          /\ gi' = gi + 1
          /\ pc' = "update_group"
          /\ req' = NoReq
          /\ UNCHANGED <<result, errKind, project>>
       \/ /\ remote' \in {remote, Apply(req)}
          /\ calls' = Settle(calls, "waitErr")
          /\ Return("err", "wait")
          /\ UNCHANGED partialKeys

\* d.Partial(false), then the closing Read
UpdateFinish ==
    /\ pc = "update_group"
    /\ gi > Len(UpdateGroups)
    /\ partial' = FALSE
    /\ pc' = "read"
    /\ UNCHANGED <<deleted, kind, provProject, cfg, d, partialKeys, remote, op, result, errKind,
                   calls, project, gi, id0, req, getOutcome>>

----------------------------------------------------------------------------
(* Delete *)

\* Delete up to and including the delete call
DeleteCall ==
    /\ Enter("Delete")
    /\ d.id # ""
    /\ partial' = FALSE
    /\ UNCHANGED <<deleted, kind, provProject, cfg, d, remote>>
    /\ LET p == getProject IN
       IF p.err
       THEN /\ Return("err", "project")
            /\ calls' = <<>>
       ELSE \E o \in MutateOutcomes :
            IF o = "ok"
            THEN /\ req' = [rpc |-> "Delete"]
                 /\ calls' = <<Call("Delete", "issued")>>
                 /\ pc' = "delete_wait"
                 /\ project' = p.project
                 /\ result' = "none"
                 /\ errKind' = "none"
                 /\ gi' = 0
            ELSE /\ Return("err", "api")
                 /\ calls' = <<Call("Delete", "callErr")>>

\* variant: the id is cleared before the wait's outcome is looked at
DeleteWaitFailed_ClearsId ==
    /\ Return("err", "wait")
    /\ d' = [d EXCEPT !.id = ""]
    /\ UNCHANGED deleted

\* the delete's operation wait failed: return err, the id stays
DeleteWaitFailed ==
    /\ Return("err", "wait")
    /\ UNCHANGED <<d, deleted>>

\* computeOperationWait on the delete, then d.SetId("")
DeleteWait ==
    /\ pc = "delete_wait"
    /\ UNCHANGED <<kind, provProject, cfg, partial, partialKeys, op, id0, getOutcome>>
    /\ \/ /\ remote' = Apply(req)
          /\ calls' = Settle(calls, "done")
          /\ d' = [d EXCEPT !.id = ""]
          /\ deleted' = TRUE
          /\ Return("ok", "none")
       \/ /\ remote' \in {remote, Apply(req)}
          /\ calls' = Settle(calls, "waitErr")
          /\ DeleteWaitFailed

----------------------------------------------------------------------------
(* The surroundings *)

\* the framework drops the handler's ResourceData once it has stored the outcome
Leave ==
    /\ pc = "returned"
    /\ pc' = "idle"
    /\ op' = "none"
    /\ result' = "none"
    /\ errKind' = "none"
    /\ calls' = <<>>
    /\ id0' = ""
    /\ getOutcome' = "none"
    /\ partial' = FALSE
    /\ partialKeys' = {}
    /\ UNCHANGED <<deleted, kind, provProject, cfg, d, remote, project, gi, req>>

\* the user edits mutable fields of the declaration between two runs
EditConfig ==
    /\ pc = "idle"
    /\ cfg' \in {c \in Configs(kind) : c.description = cfg.description /\ c # cfg}
    /\ UNCHANGED <<deleted, kind, provProject, d, partial, partialKeys, remote, op, pc, result,
                   errKind, calls, project, gi, id0, req, getOutcome>>

\* the remote object is deleted by someone else between two runs
RemoteVanish ==
    /\ pc = "idle"
    /\ remote.exists
    /\ remote' = NoRemote
    /\ UNCHANGED <<deleted, kind, provProject, cfg, d, partial, partialKeys, op, pc, result,
                   errKind, calls, project, gi, id0, req, getOutcome>>

Next ==
    \/ CreateInsert
    \/ CreateInsertWait
    \/ CreateSetSslPolicy
    \/ CreateNoSslPolicy
    \/ CreateSslPolicyWait
    \/ ReadEnter
    \/ Read
    \/ UpdateEnter
    \/ UpdateSkipGroup
    \/ UpdateGroupCall
    \/ UpdateGroupWait
    \/ UpdateFinish
    \/ DeleteCall
    \/ DeleteWait
    \/ Leave
    \/ EditConfig
    \/ RemoteVanish

Spec == Init /\ [][Next]_vars

----------------------------------------------------------------------------
(* Vocabulary of the properties *)

Done == pc = "returned"

Count(rpc) == Cardinality({i \in DOMAIN calls : calls[i].rpc = rpc})

\* the names of the mutating calls logged so far, in order
FieldCalls ==
    LET m == SelectSeq(calls, LAMBDA c : c.rpc # "Get")
    IN [i \in DOMAIN m |-> m[i].rpc]

IsPrefix(a, b) == Len(a) <= Len(b) /\ \A i \in DOMAIN a : a[i] = b[i]

Unparseable(ref) == ref.form = "bad"

\* the order of the field groups as the documentation gives it
DocumentedOrder ==
    IF kind = "ssl"
    THEN <<"proxy_header", "backend_service", "ssl_certificates", "ssl_policy">>
    ELSE <<"url_map", "ssl_certificates", "ssl_policy">>

DocumentedRpc(g) ==
    CASE g = "proxy_header" -> "SetProxyHeader"
      [] g = "backend_service" -> "SetBackendService"
      [] g = "url_map" -> "SetUrlMap"
      [] g = "ssl_certificates" -> "SetSslCertificates"
      [] g = "ssl_policy" -> "SetSslPolicy"

\* the calls an Update owes: one per changed group, in the documented order
ExpectedCalls ==
    LET ch == SelectSeq(DocumentedOrder, LAMBDA g : HasChange(g))
    IN [i \in DOMAIN ch |-> DocumentedRpc(ch[i])]

\* Update has not reached its closing Read: d still holds the last-known values
InUpdatePhase == op = "Update" /\ pc # "idle" /\ getOutcome = "none"

\* the remote object holds what the declaration asks of the field a call sets
RemoteHolds(rpc) ==
    CASE rpc = "SetProxyHeader" -> remote.proxyHeader = cfg.proxy_header
      [] rpc \in {"SetBackendService", "SetUrlMap"} -> remote.service = cfg.backend
      [] rpc = "SetSslCertificates" ->
             /\ Len(remote.sslCertificates) = Len(cfg.ssl_certificates)
             /\ \A i \in DOMAIN cfg.ssl_certificates :
                    /\ remote.sslCertificates[i].form = "rel"
                    /\ remote.sslCertificates[i].name = cfg.ssl_certificates[i].name
      [] rpc = "SetSslPolicy" -> remote.sslPolicy.name = cfg.ssl_policy.name
      [] OTHER -> FALSE

DigitValue(c) == CHOOSE n \in 0..9 : Digit(n) = c

\* the number a decimal string denotes
RECURSIVE ParseUint(_)
ParseUint(str) ==
    IF str = <<>> THEN 0
    ELSE 10 * ParseUint(SubSeq(str, 1, Len(str) - 1)) + DigitValue(str[Len(str)])

IsDecimal(str) ==
    /\ Len(str) >= 1
    /\ \A i \in DOMAIN str : str[i] \in {Digit(n) : n \in 0..9}
    /\ (Len(str) > 1 => str[1] # "0")

----------------------------------------------------------------------------
(* C1: when the Get of Read reports not-found, Read clears the id and returns *)
(* no error; for any other Get failure Read returns an error and the id stays *)
(* as it was; no handler other than through this not-found returns success    *)
(* with the id cleared (Delete's own SetId("") aside), and a failed project   *)
(* resolution, certificate expansion, remote call, operation wait or Get is   *)
(* always returned as an error.                                               *)
C1_NotFoundClearsIdOtherErrorsSurface ==
    Done =>
        /\ getOutcome = "notFound" => (result = "ok" /\ d.id = "")
        /\ getOutcome = "fail" =>
               /\ result = "err"
               /\ d.id = IF op = "Create" THEN cfg.name ELSE id0
        /\ (result = "ok" /\ op # "Delete" /\ d.id = "") => getOutcome = "notFound"
        /\ errKind \in {"project", "certParse", "api", "wait", "get"} => result = "err"
        /\ (op = "Update" /\ errKind = "policyParse") => result = "err"

C1_Witness ==
    /\ Done /\ op = "Read" /\ id0 # "" /\ getOutcome = "notFound"
    /\ result = "ok" /\ d.id = ""

(* C2: a project, certificate or ssl_policy resolution error is returned at   *)
(* once and the remote call that would have used the value is not issued; in  *)
(* Create an unparseable ssl_policy makes Create return the error without a   *)
(* SetSslPolicy call.                                                         *)
C2_ResolutionErrorsSurfaceBeforeCall ==
    Done =>
        /\ errKind = "project" => (result = "err" /\ calls = <<>>)
        /\ errKind = "certParse" =>
               (result = "err" /\ Count("Insert") = 0 /\ Count("SetSslCertificates") = 0)
        /\ (op = "Update" /\ errKind = "policyParse") =>
               (result = "err" /\ Count("SetSslPolicy") = 0)
        /\ (op = "Create" /\ Unparseable(cfg.ssl_policy)
              /\ calls # <<>> /\ calls[1] = Call("Insert", "done")) =>
               (result = "err" /\ Count("SetSslPolicy") = 0)

(* C3: in Create no SetSslPolicy call is issued when no ssl_policy is         *)
(* declared; when one is declared a Create that succeeds has issued exactly   *)
(* one; never more than one is issued, and only as the second call, after the *)
(* Insert whose operation wait succeeded.                                     *)
C3_CreatePolicyAttachOnce ==
    (op = "Create" /\ pc # "idle") =>
        /\ Count("SetSslPolicy") <= 1
        /\ cfg.ssl_policy = EmptyRef => Count("SetSslPolicy") = 0
        /\ \A i \in DOMAIN calls :
               calls[i].rpc = "SetSslPolicy" => (i = 2 /\ calls[1] = Call("Insert", "done"))
        /\ (Done /\ result = "ok") =>
               Count("SetSslPolicy") = IF cfg.ssl_policy = EmptyRef THEN 0 ELSE 1

C3_Witness ==
    /\ Done /\ op = "Create" /\ result = "ok"
    /\ cfg.ssl_policy = Short("pol1")
    /\ FieldCalls = <<"Insert", "SetSslPolicy">>

(* C4: Update issues one call per changed field group and none for an         *)
(* unchanged one, each at most once, in the documented order; every call's    *)
(* operation has been waited on before the next call is issued.               *)
C4_UpdateCallsChangedGroupsInOrder ==
    InUpdatePhase =>
        /\ IsPrefix(FieldCalls, ExpectedCalls)
        /\ pc = "read" => FieldCalls = ExpectedCalls
        /\ \A i \in DOMAIN calls : i < Len(calls) => calls[i].st = "done"
        /\ \A i \in DOMAIN calls : calls[i].st = "issued" => pc = "update_wait"
        /\ pc = "update_wait" => (calls # <<>> /\ calls[Len(calls)].st = "issued")

C4_Witness ==
    /\ kind = "ssl" /\ op = "Update" /\ pc = "read"
    /\ d.proxy_header # cfg.proxy_header
    /\ calls = <<Call("SetProxyHeader", "done")>>

(* C5: when a field-group call or its wait fails Update returns the error at  *)
(* once: the failed call is the last one issued, the groups completed before  *)
(* it stay applied remotely, and no call is issued twice or to undo them.     *)
C5_UpdateFailureStopsNoRollback ==
    InUpdatePhase =>
        /\ \A i \in DOMAIN calls :
               calls[i].st \in {"callErr", "waitErr"} =>
                   (i = Len(calls) /\ Done /\ result = "err")
        /\ (Done /\ result = "err") =>
               /\ \A i \in DOMAIN calls : calls[i].st = "done" => RemoteHolds(calls[i].rpc)
               /\ \A i, j \in DOMAIN calls : calls[i].rpc = calls[j].rpc => i = j
               /\ \A i \in DOMAIN calls :
                      calls[i].rpc \in {DocumentedRpc(DocumentedOrder[k]) :
                                            k \in DOMAIN DocumentedOrder}

C5_Witness ==
    /\ InUpdatePhase /\ Done /\ result = "err"
    /\ Len(calls) = 2 /\ calls[1].st = "done" /\ calls[2].st = "waitErr"
    /\ Len(ExpectedCalls) > 2

(* C6: Delete clears the id only after the delete call and its wait have      *)
(* succeeded; when the call or the wait fails (not-found included) it returns *)
(* an error and the id stays; a Read after a successful Delete finds no       *)
(* object, leaves the id empty and, unless the Get itself fails otherwise,    *)
(* returns no error.                                                          *)
C6_DeleteThenReadAbsent ==
    /\ (op = "Delete" /\ pc # "idle") =>
           /\ d.id # id0 => (calls = <<Call("Delete", "done")>> /\ d.id = "")
           /\ (Done /\ result = "ok") =>
                  (calls = <<Call("Delete", "done")>> /\ d.id = "" /\ ~remote.exists)
           /\ (Done /\ result # "ok") => (result = "err" /\ d.id = id0 /\ id0 # "")
           /\ (Done /\ calls # <<>> /\ calls[Len(calls)].st # "done") => result = "err"
    /\ (op = "Read" /\ Done /\ deleted) =>
           /\ d.id = ""
           /\ getOutcome \in {"notFound", "fail"}
           /\ getOutcome = "notFound" => result = "ok"

C6_Witness ==
    /\ op = "Read" /\ Done /\ deleted /\ result = "ok" /\ d.id = ""
    /\ getOutcome = "notFound"

(* C7: after a Create, Update or Read that returns success with a non-empty   *)
(* id every field of local state equals the field of the remote object, with  *)
(* proxy_id the decimal string of the remote number; when the remote object   *)
(* is absent the id is empty.                                                 *)
C7_LocalStateMirrorsRemote ==
    (Done /\ op \in {"Create", "Update", "Read"} /\ result = "ok") =>
        IF d.id # ""
        THEN /\ remote.exists
             /\ d.id = remote.name
             /\ d.name = remote.name
             /\ d.description = remote.description
             /\ d.backend = remote.service
             /\ d.ssl_certificates = remote.sslCertificates
             /\ d.ssl_policy = remote.sslPolicy
             /\ kind = "ssl" => d.proxy_header = remote.proxyHeader
             /\ d.self_link = remote.selfLink
             /\ IsDecimal(d.proxy_id)
             /\ ParseUint(d.proxy_id) = remote.id
        ELSE /\ getOutcome = "notFound"
             /\ ~(remote.exists /\ remote.name = IF op = "Create" THEN cfg.name ELSE id0)

C7_Witness ==
    /\ Done /\ op = "Update" /\ result = "ok" /\ d.id # ""
    /\ calls # <<>> /\ Len(d.proxy_id) = 2
    /\ d.ssl_policy # EmptyRef

(* C8: expandSslCertificates gives one canonical relative path per declared   *)
(* certificate, in the declared order, or an error and no list when an        *)
(* element does not parse; a Create that succeeds reads back the same         *)
(* certificates in the same order, and a Create with an unparseable element   *)
(* returns the error before any remote call.                                  *)
C8_ExpandKeepsCountAndOrder ==
    LET c == cfg.ssl_certificates
        e == expandSslCertificates("p1")
    IN /\ IF \E i \in DOMAIN c : Unparseable(c[i])
          THEN e.err /\ e.certs = <<>>
          ELSE /\ ~e.err
               /\ Len(e.certs) = Len(c)
               /\ \A i \in DOMAIN c :
                      e.certs[i] = Rel(IF c[i].form = "short" THEN "p1" ELSE c[i].project,
                                       c[i].name)
       /\ (Done /\ op = "Create" /\ result = "ok" /\ d.id # "") =>
              /\ Len(d.ssl_certificates) = Len(c)
              /\ \A i \in DOMAIN c :
                     /\ d.ssl_certificates[i].form = "rel"
                     /\ d.ssl_certificates[i].name = c[i].name
       /\ (Done /\ op = "Create" /\ errKind # "project"
             /\ \E i \in DOMAIN c : Unparseable(c[i])) =>
              (result = "err" /\ errKind = "certParse" /\ calls = <<>>)

C8_Witness ==
    /\ Done /\ op = "Create" /\ result = "ok" /\ d.id # ""
    /\ Len(cfg.ssl_certificates) = 2
    /\ cfg.ssl_certificates[1].name = "c2"
    /\ d.ssl_certificates = <<Rel("p2", "c2"), Rel("p1", "c1")>>

(* C9: Create sets the id to the declared name only after the Insert call and *)
(* its wait have succeeded: a failure of project resolution, certificate      *)
(* expansion, the Insert or its wait returns an error with the id still       *)
(* empty; a failure of the policy attach or its wait returns an error with    *)
(* the id already the declared name.                                          *)
C9_CreateIdAfterInsertWait ==
    (op = "Create" /\ pc # "idle") =>
        /\ d.id # "" => (d.id = cfg.name /\ calls # <<>> /\ calls[1] = Call("Insert", "done"))
        /\ (Done /\ (calls = <<>> \/ (Len(calls) = 1 /\ calls[1].st # "done"))) =>
               (result = "err" /\ d.id = "")
        /\ (Done /\ Len(calls) = 2 /\ calls[2].rpc = "SetSslPolicy"
              /\ calls[2].st \in {"callErr", "waitErr"}) =>
               (result = "err" /\ d.id = cfg.name)

C9_Witness ==
    /\ Done /\ op = "Create" /\ result = "err"
    /\ Len(calls) = 2 /\ calls[2] = Call("SetSslPolicy", "waitErr")
    /\ d.id = cfg.name

\* the schema key of the field group a call updates
DocumentedKey(rpc) ==
    CASE rpc = "SetProxyHeader" -> "proxy_header"
      [] rpc = "SetBackendService" -> "backend_service"
      [] rpc = "SetUrlMap" -> "url_map"
      [] rpc = "SetSslCertificates" -> "ssl_certificates"
      [] rpc = "SetSslPolicy" -> "ssl_policy"

(* C10: when Update returns an error with partial mode on, the keys marked by *)
(* SetPartial are exactly the field groups whose call and wait both           *)
(* succeeded during that Update.                                              *)
C10_PartialKeysAreCompletedGroups ==
    (op = "Update" /\ Done /\ result = "err" /\ partial) =>
        partialKeys = {DocumentedKey(calls[i].rpc) :
                           i \in {j \in DOMAIN calls : calls[j].st = "done"}}

====
